---- MODULE Spec2Model ----
(***************************************************************************)
(* The edit session of the AI Photo Editor (src/App.tsx): the five React   *)
(* state fields of App, the handlers handleImageChange and handleSubmit,   *)
(* the controls that reach them, and the two suspension points of          *)
(* handleSubmit (await fileToBase64, await editImageWithPrompt).           *)
(*                                                                         *)
(* Strings the code looks into are sequences of one-character strings      *)
(* (the prompt, base64 text, the data URL); a nullable value is the empty  *)
(* sequence (null) or a one-element sequence.                              *)
(***************************************************************************)
EXTENDS Integers, Sequences, FiniteSets, TLC

VARIABLES
    originalImageFile,  \* useState<File | null>        (App.tsx:30)
    editedImage,        \* useState<string | null>      (App.tsx:31)
    prompt,             \* useState<string>             (App.tsx:32)
    isLoading,          \* useState<boolean>            (App.tsx:33)
    error,              \* useState<string | null>      (App.tsx:34)
    tasks,              \* the handleSubmit invocations suspended at an await
    codecCalls,         \* history: invocations of fileToBase64
    remoteCalls,        \* history: invocations of editImageWithPrompt
    submits,            \* history: handleSubmit invocations that passed both checks
    editedFrom,         \* history: the file whose edit editedImage holds
    last                \* history: the step taken last, its input and the fields before it

vars == <<originalImageFile, editedImage, prompt, isLoading, error, tasks,
          codecCalls, remoteCalls, submits, editedFrom, last>>

----------------------------------------------------------------------------
(* Bounds *)

\* accepted submits (each one calls fileToBase64 once) explored in one run
MaxSubmits == 2
\* parts in one response of the remote capability
MaxParts == 3
\* characters typed into the textarea
MaxPromptLen == 2
\* bytes of a file handed to the codec
MaxBytes == 4

----------------------------------------------------------------------------
(* Values *)

Null == <<>>
Some(v) == <<v>>

UploadImageFirst == "Please upload an image first."
EnterInstruction == "Please enter an editing instruction."
UnknownError == "An unknown error occurred."

\* what String.prototype.trim removes (two representatives)
WhiteSpace == {" ", "\t"}

\* the selectable files: their declared type and their bytes
Files ==
    { [name |-> "red.png",  type |-> "image/png",  bytes |-> <<137, 80>>],
      [name |-> "shoe.jpg", type |-> "image/jpeg", bytes |-> <<255, 216, 255>>] }

\* footer buttons; a word stands for its run of non-blank characters
examplePrompts ==
    { <<"Remove", " ", "the", " ", "background">>,
      <<"Add", " ", "a", " ", "retro", " ", "filter">>,
      <<"Make", " ", "the", " ", "colors", " ", "more", " ", "vibrant">>,
      <<"Convert", " ", "to", " ", "black", " ", "and", " ", "white">>,
      <<"Clean", " ", "up", " ", "the", " ", "product", " ", "photo">> }

\* what the user can type: blanks and letters
TypedPrompts == UNION { [1..n -> {" ", "x"}] : n \in 0..MaxPromptLen }

TextPart(t) == [text |-> Some(t), inlineData |-> Null]
ImagePart(m, d) == [text |-> Null, inlineData |-> Some([mimeType |-> m, data |-> d])]

\* the parts a response is made of: commentary, and two images of different type
\* and content
Parts ==
    { TextPart("I can't edit this image"),
      ImagePart("image/png", <<"i", "V", "B", "O">>),
      ImagePart("image/jpeg", <<"/", "9", "k", "=">>) }

Responses == UNION { [1..n -> Parts] : n \in 0..MaxParts }

\* what a rejected collaborator promise carries: a value with or without a message
Failure(kind, message) == [kind |-> kind, message |-> message]
Messages == { Null, Some(""), Some("Failed to fetch") }
ReadErrors == { Failure("ReadError", m) : m \in Messages }
TransportErrors == { Failure("TransportError", m) : m \in Messages }
NoImageInResponse ==
    Failure("NoImageInResponse", Some("No image was returned for this edit."))

----------------------------------------------------------------------------
(* Pure functions *)

\* String.prototype.trim
RECURSIVE TrimStart(_)
TrimStart(s) ==
    IF s # <<>> /\ Head(s) \in WhiteSpace THEN TrimStart(Tail(s)) ELSE s

RECURSIVE TrimEnd(_)
TrimEnd(s) ==
    IF s # <<>> /\ s[Len(s)] \in WhiteSpace
    THEN TrimEnd(SubSeq(s, 1, Len(s) - 1))
    ELSE s

trim(s) == TrimEnd(TrimStart(s))

\* !prompt.trim()
IsBlankNoTrim(p) == p = <<>>
IsBlank(p) == trim(p) = <<>>

\* the radix-64 alphabet
B64Alphabet ==
    << "A","B","C","D","E","F","G","H","I","J","K","L","M","N","O","P",
       "Q","R","S","T","U","V","W","X","Y","Z","a","b","c","d","e","f",
       "g","h","i","j","k","l","m","n","o","p","q","r","s","t","u","v",
       "w","x","y","z","0","1","2","3","4","5","6","7","8","9","+","/" >>

B64Char(i) == B64Alphabet[i + 1]

RECURSIVE Base64Encode(_)
Base64Encode(b) ==
    IF Len(b) = 0 THEN <<>>
    ELSE IF Len(b) = 1 THEN
        << B64Char(b[1] \div 4), B64Char((b[1] % 4) * 16), "=", "=" >>
    ELSE IF Len(b) = 2 THEN
        << B64Char(b[1] \div 4),
           B64Char((b[1] % 4) * 16 + b[2] \div 16),
           B64Char((b[2] % 16) * 4), "=" >>
    ELSE
        << B64Char(b[1] \div 4),
           B64Char((b[1] % 4) * 16 + b[2] \div 16),
           B64Char((b[2] % 16) * 4 + b[3] \div 64),
           B64Char(b[3] % 64) >> \o Base64Encode(SubSeq(b, 4, Len(b)))

\* ImageCodec.encode: what the promise of fileToBase64 resolves to
fileToBase64KeepsPrefix(file) ==
    [base64 |-> <<"data:", file.type, ";base64,">> \o Base64Encode(file.bytes),
     mimeType |-> file.type]
fileToBase64(file) == [base64 |-> Base64Encode(file.bytes), mimeType |-> file.type]

IsImagePart(part) == part.inlineData # Null

\* the index of the first / last image-typed part, 0 when there is none
RECURSIVE ScanFrom(_, _)
ScanFrom(response, i) ==
    IF i > Len(response) THEN 0
    ELSE IF IsImagePart(response[i]) THEN i
    ELSE ScanFrom(response, i + 1)

RECURSIVE ScanBack(_, _)
ScanBack(response, i) ==
    IF i < 1 THEN 0
    ELSE IF IsImagePart(response[i]) THEN i
    ELSE ScanBack(response, i - 1)

LastImagePart(response) == ScanBack(response, Len(response))
FirstImagePart(response) == ScanFrom(response, 1)

\* EditRequestClient.requestEdit, once the response is in: the encoded content of
\* the matched part, or the failure it throws
editImageWithPrompt(response) ==
    IF FirstImagePart(response) = 0
    THEN [ok |-> FALSE, thrown |-> NoImageInResponse]
    ELSE [ok |-> TRUE,
          value |-> response[FirstImagePart(response)].inlineData[1].data]

\* `data:${mimeType};base64,${generatedImageBase64}`
DataUrlOfSource(mimeType, generatedImageBase64, base64) ==
    <<"data:", mimeType, ";base64,">> \o base64
DataUrl(mimeType, generatedImageBase64, base64) ==
    <<"data:", mimeType, ";base64,">> \o generatedImageBase64

\* reading a data URL back
MediaTypeOf(url) == url[2]
PayloadOf(url) == SubSeq(url, 4, Len(url))

\* err.message || "An unknown error occurred."
ErrorTextAlwaysGeneric(e) == UnknownError
ErrorTextNoFallback(e) == IF e.message = Null THEN "" ELSE e.message[1]
ErrorText(e) ==
    IF e.message = Null \/ e.message = Some("") THEN UnknownError ELSE e.message[1]

----------------------------------------------------------------------------
(* The session *)

Snapshot ==
    [isLoading |-> isLoading, editedImage |-> editedImage, error |-> error,
     remoteCalls |-> remoteCalls, codecCalls |-> codecCalls]
Step(op, arg) == [op |-> op, arg |-> arg, pre |-> Snapshot]

Init ==
    /\ originalImageFile = Null
    /\ editedImage = Null
    /\ prompt = <<>>
    /\ isLoading = FALSE
    /\ error = Null
    /\ tasks = <<>>
    /\ codecCalls = 0
    /\ remoteCalls = 0
    /\ submits = 0
    /\ editedFrom = Null
    /\ last = [op |-> "init", arg |-> Null,
               pre |-> [isLoading |-> FALSE, editedImage |-> Null, error |-> Null,
                        remoteCalls |-> 0, codecCalls |-> 0]]

\* the fields handleImageChange sets once a file was chosen
ImageChangeKeepsError(file) ==
    [originalImageFile |-> file, editedImage |-> Null, error |-> error]
ImageChange(file) ==
    [originalImageFile |-> file, editedImage |-> Null, error |-> Null]

\* onChange of the file input; file = Null when the dialog gave no file
handleImageChange(file) ==
    /\ IF file # Null
       THEN /\ originalImageFile' = ImageChange(file).originalImageFile
            /\ editedImage' = ImageChange(file).editedImage
            /\ error' = ImageChange(file).error
            /\ editedFrom' = Null
       ELSE UNCHANGED <<originalImageFile, editedImage, error, editedFrom>>
    /\ last' = Step("handleImageChange", file)
    /\ UNCHANGED <<prompt, isLoading, tasks, codecCalls, remoteCalls, submits>>

SelectImage == \E f \in Files : handleImageChange(Some(f))
CancelSelect == handleImageChange(Null)

\* onChange of the textarea and onClick of an example prompt
setPrompt(p, op) ==
    /\ ~isLoading
    /\ prompt' = p
    /\ last' = Step(op, p)
    /\ UNCHANGED <<originalImageFile, editedImage, isLoading, error, tasks,
                   codecCalls, remoteCalls, submits, editedFrom>>

TypePrompt == \E p \in TypedPrompts : setPrompt(p, "typePrompt")
PickExample == \E p \in examplePrompts : setPrompt(p, "examplePrompt")

\* the early returns of handleSubmit: the message set, or Null when both checks pass
ValidatePromptFirst(file, p) ==
    IF IsBlank(p) THEN Some(EnterInstruction)
    ELSE IF file = Null THEN Some(UploadImageFirst)
    ELSE Null
ValidateSwapped(file, p) ==
    IF file = Null THEN Some(EnterInstruction)
    ELSE IF IsBlank(p) THEN Some(UploadImageFirst)
    ELSE Null
Validate(file, p) ==
    IF file = Null THEN Some(UploadImageFirst)
    ELSE IF IsBlank(p) THEN Some(EnterInstruction)
    ELSE Null

\* setIsLoading(true); setError(null); setEditedImage(null)
AcceptedKeepsResult ==
    [isLoading |-> TRUE, error |-> Null, editedImage |-> editedImage]
Accepted ==
    [isLoading |-> TRUE, error |-> Null, editedImage |-> Null]

\* handleSubmit up to its first await
handleSubmit ==
    /\ IF Validate(originalImageFile, prompt) # Null
       THEN /\ error' = Validate(originalImageFile, prompt)
            /\ UNCHANGED <<isLoading, editedImage, tasks, codecCalls, submits,
                           editedFrom>>
       ELSE /\ submits < MaxSubmits
            /\ submits' = submits + 1
            /\ isLoading' = Accepted.isLoading
            /\ error' = Accepted.error
            /\ editedImage' = Accepted.editedImage
            /\ editedFrom' = IF Accepted.editedImage = Null THEN Null ELSE editedFrom
            /\ codecCalls' = codecCalls + 1
            /\ tasks' = Append(tasks, [pc |-> "fileToBase64",
                                       originalImageFile |-> originalImageFile[1],
                                       prompt |-> prompt,
                                       base64 |-> <<>>,
                                       mimeType |-> ""])
    /\ last' = Step("handleSubmit", Null)
    /\ UNCHANGED <<originalImageFile, prompt, remoteCalls>>

\* disabled={isLoading || !originalImageFile}
GenerateDisabledNoLoading == originalImageFile = Null
GenerateDisabledUntilReset ==
    isLoading \/ originalImageFile = Null \/ editedImage # Null \/ error # Null
GenerateDisabled == isLoading \/ originalImageFile = Null

ClickGenerate == ~GenerateDisabled /\ handleSubmit

Without(s, i) == SubSeq(s, 1, i - 1) \o SubSeq(s, i + 1, Len(s))

\* finally { setIsLoading(false) }
StillLoading == TRUE
Finally == FALSE

\* catch (e) { setError(err.message || ...) }
CaughtKeepsError(e) == error
Caught(e) == Some(ErrorText(e))

\* the catch and finally blocks, ending invocation i
Reject(i, e, op, arg) ==
    /\ error' = Caught(e)
    /\ isLoading' = Finally
    /\ tasks' = Without(tasks, i)
    /\ last' = Step(op, arg)
    /\ UNCHANGED <<originalImageFile, editedImage, prompt, submits, editedFrom>>

\* the originalImageFile invocation i closed over when handleSubmit was called
CurrentFile(i) == originalImageFile[1]
ClosedOverFile(i) == tasks[i].originalImageFile

\* await fileToBase64 resolves: editImageWithPrompt is called
FileRead(i) ==
    /\ tasks[i].pc = "fileToBase64"
    /\ tasks' = [tasks EXCEPT ![i].pc = "editImageWithPrompt",
                              ![i].base64 = fileToBase64(ClosedOverFile(i)).base64,
                              ![i].mimeType = fileToBase64(ClosedOverFile(i)).mimeType]
    /\ remoteCalls' = remoteCalls + 1
    /\ last' = Step("fileRead", Null)
    /\ UNCHANGED <<originalImageFile, editedImage, prompt, isLoading, error, codecCalls,
                   submits, editedFrom>>

\* await fileToBase64 rejects
FileReadFailsCallsRemote(i, e) ==
    /\ tasks[i].pc = "fileToBase64"
    /\ tasks' = [tasks EXCEPT ![i].pc = "editImageWithPrompt"]
    /\ remoteCalls' = remoteCalls + 1
    /\ last' = Step("readError", e)
    /\ UNCHANGED <<originalImageFile, editedImage, prompt, isLoading, error, codecCalls,
                   submits, editedFrom>>
FileReadFails(i, e) ==
    /\ tasks[i].pc = "fileToBase64"
    /\ Reject(i, e, "readError", e)
    /\ UNCHANGED <<codecCalls, remoteCalls>>

\* await editImageWithPrompt settles on a response of the remote capability
Responded(i, response) ==
    /\ tasks[i].pc = "editImageWithPrompt"
    /\ IF editImageWithPrompt(response).ok
       THEN /\ editedImage' = Some(DataUrl(tasks[i].mimeType,
                                           editImageWithPrompt(response).value,
                                           tasks[i].base64))
            /\ editedFrom' = Some(tasks[i].originalImageFile)
            /\ isLoading' = Finally
            /\ tasks' = Without(tasks, i)
            /\ last' = Step("responded", response)
            /\ UNCHANGED <<originalImageFile, prompt, error, submits>>
       ELSE Reject(i, editImageWithPrompt(response).thrown, "responded", response)
    /\ UNCHANGED <<codecCalls, remoteCalls>>

\* await editImageWithPrompt rejects: the call could not be completed
RequestFailsRetries(i, e) ==
    /\ tasks[i].pc = "editImageWithPrompt"
    /\ remoteCalls' = remoteCalls + 1
    /\ last' = Step("transportError", e)
    /\ UNCHANGED <<originalImageFile, editedImage, prompt, isLoading, error, tasks,
                   codecCalls, submits, editedFrom>>
RequestFails(i, e) ==
    /\ tasks[i].pc = "editImageWithPrompt"
    /\ Reject(i, e, "transportError", e)
    /\ UNCHANGED <<codecCalls, remoteCalls>>

ReadResolves == \E i \in 1..Len(tasks) : FileRead(i)
ReadRejects == \E i \in 1..Len(tasks) : \E e \in ReadErrors : FileReadFails(i, e)
RemoteResponds == \E i \in 1..Len(tasks) : \E r \in Responses : Responded(i, r)
RemoteRejects == \E i \in 1..Len(tasks) : \E e \in TransportErrors : RequestFails(i, e)

\* a suspended invocation resumes
Settle == ReadResolves \/ ReadRejects \/ RemoteResponds \/ RemoteRejects

\* the rendered interface: handleSubmit is reached through the Generate button
Next ==
    \/ SelectImage
    \/ CancelSelect
    \/ TypePrompt
    \/ PickExample
    \/ ClickGenerate
    \/ ReadResolves
    \/ ReadRejects
    \/ RemoteResponds
    \/ RemoteRejects

Spec == Init /\ [][Next]_vars

\* the session's submit command as section 6 of the design exposes it: handleSubmit
\* called whether or not an image is selected, and, as in the rendered interface,
\* never while loading
SubmitCommand == ~isLoading /\ handleSubmit

SessionNext ==
    \/ SelectImage
    \/ CancelSelect
    \/ TypePrompt
    \/ PickExample
    \/ SubmitCommand
    \/ ReadResolves
    \/ ReadRejects
    \/ RemoteResponds
    \/ RemoteRejects

SessionSpec == Init /\ [][SessionNext]_vars

\* every collaborator operation eventually completes or fails
FairSpec == Spec /\ WF_vars(Settle)

\* byte values that exercise every bit the encoding moves
ByteSamples == {0, 77, 130, 255}
Blobs == UNION { [1..n -> ByteSamples] : n \in 0..MaxBytes }

\* the codec on any file: one accepted submit of a file of any content, suspended
\* at await fileToBase64, run to its end with no further input of the user
CodecInit ==
    \E b \in Blobs, t \in {"image/png", "image/jpeg"} :
        /\ originalImageFile = Some([name |-> "upload", type |-> t, bytes |-> b])
        /\ editedImage = Null
        /\ prompt = <<"x">>
        /\ isLoading = TRUE
        /\ error = Null
        /\ tasks = <<[pc |-> "fileToBase64",
                      originalImageFile |-> [name |-> "upload", type |-> t, bytes |-> b],
                      prompt |-> <<"x">>,
                      base64 |-> <<>>,
                      mimeType |-> ""]>>
        /\ codecCalls = 1
        /\ remoteCalls = 0
        /\ submits = 1
        /\ editedFrom = Null
        /\ last = [op |-> "handleSubmit", arg |-> Null,
                   pre |-> [isLoading |-> FALSE, editedImage |-> Null, error |-> Null,
                            remoteCalls |-> 0, codecCalls |-> 0]]

CodecNext ==
    \/ ReadResolves
    \/ ReadRejects
    \/ RemoteResponds
    \/ RemoteRejects

CodecSpec == CodecInit /\ [][CodecNext]_vars

----------------------------------------------------------------------------
(* Properties *)

Success == ~isLoading /\ editedImage # Null /\ error = Null
Failed == ~isLoading /\ editedImage = Null /\ error # Null /\ error # Some("")
NoCollaboratorCalled ==
    codecCalls' = codecCalls /\ remoteCalls' = remoteCalls /\ tasks' = tasks

\* empty, or made of white space only
OnlyWhiteSpace(p) == \A k \in 1..Len(p) : p[k] \in WhiteSpace

\* C1: a submit with an image selected and an empty or whitespace-only instruction
\* calls neither fileToBase64 nor editImageWithPrompt, leaves isLoading false and
\* sets the error to "Please enter an editing instruction."
C1_BlankInstructionRejected ==
    [][(last'.op = "handleSubmit" /\ originalImageFile # Null /\ OnlyWhiteSpace(prompt))
        => /\ NoCollaboratorCalled
           /\ ~isLoading /\ ~isLoading'
           /\ error' = Some(EnterInstruction)]_vars

C1_Witness ==
    /\ last.op = "handleSubmit"
    /\ originalImageFile # Null
    /\ prompt = <<" ", " ">>
    /\ error = Some(EnterInstruction)
    /\ ~isLoading
    /\ codecCalls = 0 /\ remoteCalls = 0

\* C2: a submit with no image selected, whatever the instruction, calls neither
\* collaborator, leaves isLoading false and sets the error to
\* "Please upload an image first."
C2_NoImageRejected ==
    [][(last'.op = "handleSubmit" /\ originalImageFile = Null)
        => /\ NoCollaboratorCalled
           /\ ~isLoading /\ ~isLoading'
           /\ error' = Some(UploadImageFirst)]_vars

C2_Witness ==
    /\ last.op = "handleSubmit"
    /\ originalImageFile = Null
    /\ ~OnlyWhiteSpace(prompt)
    /\ error = Some(UploadImageFirst)
    /\ ~isLoading
    /\ codecCalls = 0 /\ remoteCalls = 0

\* C3: at most one handleSubmit invocation is outstanding in every reachable
\* state, and no step taken while isLoading starts another one
C3_OneEditInFlight ==
    /\ [](Len(tasks) <= 1)
    /\ [][isLoading => codecCalls' = codecCalls]_vars

C3_Witness ==
    /\ isLoading
    /\ Len(tasks) = 1
    /\ last.op = "handleImageChange"
    /\ last.arg # Null
    /\ last.pre.isLoading
    /\ codecCalls = 1

\* C4: after a response with an image part, the media type of the stored data URL
\* is the media type of the first image part of that response
C4_MediaTypeFromMatchedPart ==
    (last.op = "responded" /\ FirstImagePart(last.arg) # 0)
        => /\ editedImage # Null
           /\ MediaTypeOf(editedImage[1])
                = last.arg[FirstImagePart(last.arg)].inlineData[1].mimeType

\* C5: on success the payload of the stored data URL is the value
\* editImageWithPrompt returned, unchanged
C5_PayloadVerbatim ==
    (last.op = "responded" /\ editImageWithPrompt(last.arg).ok)
        => /\ editedImage # Null
           /\ PayloadOf(editedImage[1]) = editImageWithPrompt(last.arg).value

C5_Witness ==
    /\ last.op = "responded"
    /\ editImageWithPrompt(last.arg).ok
    /\ editedImage # Null
    /\ PayloadOf(editedImage[1]) = <<"i", "V", "B", "O">>
    /\ originalImageFile # Null
    /\ Base64Encode(originalImageFile[1].bytes) # PayloadOf(editedImage[1])

HasNoImagePart(response) == \A k \in 1..Len(response) : response[k].inlineData = Null

\* C6: a response without any image-typed part ends the loading session with an
\* error message set and no result stored, never with a result
C6_NoImagePartFails ==
    (last.op = "responded" /\ HasNoImagePart(last.arg))
        => /\ last.pre.isLoading
           /\ Failed
           /\ ~Success

C6_Witness ==
    /\ last.op = "responded"
    /\ last.arg = <<TextPart("I can't edit this image")>>
    /\ last.pre.isLoading
    /\ Failed

\* C7: a response with one or more image-typed parts ends in Success, and the
\* stored payload is that of the image part no image part precedes
C7_FirstImagePartWins ==
    (last.op = "responded" /\ ~HasNoImagePart(last.arg))
        => /\ Success
           /\ \E k \in 1..Len(last.arg) :
                /\ last.arg[k].inlineData # Null
                /\ \A j \in 1..(k - 1) : last.arg[j].inlineData = Null
                /\ PayloadOf(editedImage[1]) = last.arg[k].inlineData[1].data

C7_Witness ==
    /\ last.op = "responded"
    /\ Len(last.arg) = 3
    /\ last.arg[1].inlineData = Null
    /\ last.arg[2].inlineData # Null
    /\ last.arg[3].inlineData # Null
    /\ last.arg[2].inlineData[1].data # last.arg[3].inlineData[1].data
    /\ Success
    /\ PayloadOf(editedImage[1]) = last.arg[2].inlineData[1].data

\* C8: choosing a file while a result or an error is shown and nothing is loading
\* leaves result and error absent and isLoading false
C8_SelectImageClears ==
    (/\ last.op = "handleImageChange"
     /\ last.arg # Null
     /\ ~last.pre.isLoading
     /\ (last.pre.editedImage # Null \/ last.pre.error # Null))
        => (editedImage = Null /\ error = Null /\ ~isLoading)

C8_Witness ==
    /\ last.op = "handleImageChange"
    /\ last.arg # Null
    /\ ~last.pre.isLoading
    /\ last.pre.editedImage = Null
    /\ last.pre.error = Some("Failed to fetch")
    /\ editedImage = Null /\ error = Null /\ ~isLoading

IsFailureStep ==
    \/ last.op \in {"readError", "transportError"}
    \/ last.op = "responded" /\ ~editImageWithPrompt(last.arg).ok

\* C9: a rejected file read, a rejected remote call or a response without an image
\* ends the invocation inside handleSubmit: isLoading false, a non-empty error
\* message, no result, nothing left outstanding
C9_FailuresCaught ==
    IsFailureStep
        => /\ last.pre.isLoading
           /\ Failed
           /\ tasks = <<>>

C9_Witness ==
    /\ last.op = "readError"
    /\ last.arg.message = Some("")
    /\ last.pre.isLoading
    /\ Failed
    /\ remoteCalls = 0

\* C10: isLoading is true only while an invocation is outstanding, and under
\* FairSpec every loading session ends with isLoading false and a result or an
\* error stored
C10_LoadingEnds ==
    /\ [](isLoading => tasks # <<>>)
    /\ isLoading ~> (Success \/ Failed)

C10_Witness ==
    /\ last.op \in {"responded", "readError", "transportError"}
    /\ last.pre.isLoading
    /\ ~isLoading
    /\ tasks = <<>>
    /\ codecCalls = MaxSubmits

\* an image is selected, the instruction is not blank, nothing is loading
ReadyToSubmit ==
    originalImageFile # Null /\ ~OnlyWhiteSpace(prompt) /\ ~isLoading

\* C11: with a result or an error shown, an image selected and a non-blank
\* instruction, the Generate button is enabled, and the submit made then is
\* accepted: it sets isLoading and calls fileToBase64, with no step in between
C11_ResubmitWithoutReset ==
    /\ []((ReadyToSubmit /\ (editedImage # Null \/ error # Null)) => ~GenerateDisabled)
    /\ [][(/\ last'.op = "handleSubmit"
           /\ ReadyToSubmit
           /\ (editedImage # Null \/ error # Null))
            => (isLoading' /\ submits' = submits + 1 /\ codecCalls' = codecCalls + 1)]_vars

C11_Witness ==
    /\ last.op = "handleSubmit"
    /\ last.pre.editedImage # Null
    /\ last.pre.error = Null
    /\ ~last.pre.isLoading
    /\ isLoading
    /\ submits = 2

\* the standard decoding of radix-64 text: Null for text that is no encoding
B64Index(c) ==
    IF \E k \in 0..63 : B64Alphabet[k + 1] = c
    THEN CHOOSE k \in 0..63 : B64Alphabet[k + 1] = c
    ELSE -1

RECURSIVE Base64Decode(_)
Base64Decode(s) ==
    IF s = <<>> THEN Some(<<>>)
    ELSE IF Len(s) < 4 \/ B64Index(s[1]) < 0 \/ B64Index(s[2]) < 0 THEN Null
    ELSE IF s[3] = "=" THEN
        IF Len(s) = 4 /\ s[4] = "=" /\ B64Index(s[2]) % 16 = 0
        THEN Some(<< B64Index(s[1]) * 4 + B64Index(s[2]) \div 16 >>)
        ELSE Null
    ELSE IF B64Index(s[3]) < 0 THEN Null
    ELSE IF s[4] = "=" THEN
        IF Len(s) = 4 /\ B64Index(s[3]) % 4 = 0
        THEN Some(<< B64Index(s[1]) * 4 + B64Index(s[2]) \div 16,
                     (B64Index(s[2]) % 16) * 16 + B64Index(s[3]) \div 4 >>)
        ELSE Null
    ELSE IF B64Index(s[4]) < 0 \/ Base64Decode(SubSeq(s, 5, Len(s))) = Null THEN Null
    ELSE Some(<< B64Index(s[1]) * 4 + B64Index(s[2]) \div 16,
                 (B64Index(s[2]) % 16) * 16 + B64Index(s[3]) \div 4,
                 (B64Index(s[3]) % 4) * 64 + B64Index(s[4]) >>
              \o Base64Decode(SubSeq(s, 5, Len(s)))[1])

\* C12: the base64 text handed to editImageWithPrompt decodes to exactly the bytes
\* of the file submitted, and the media type handed over is that file's type
C12_EncodingRoundTrip ==
    \A i \in 1..Len(tasks) :
        tasks[i].pc = "editImageWithPrompt"
            => /\ Base64Decode(tasks[i].base64) = Some(tasks[i].originalImageFile.bytes)
               /\ tasks[i].mimeType = tasks[i].originalImageFile.type

C12_Witness ==
    /\ last.op = "fileRead"
    /\ Len(tasks) = 1
    /\ tasks[1].pc = "editImageWithPrompt"
    /\ tasks[1].originalImageFile.bytes = <<255, 77, 130, 0>>
    /\ Base64Decode(tasks[1].base64) = Some(<<255, 77, 130, 0>>)
    /\ Len(tasks[1].base64) = 8

\* C13: while isLoading is true, error and editedImage are both null
C13_LoadingHasNoErrorNoResult ==
    isLoading => (error = Null /\ editedImage = Null)

C13_Witness ==
    /\ isLoading
    /\ last.op = "handleSubmit"
    /\ last.pre.editedImage # Null
    /\ ~last.pre.isLoading
    /\ error = Null /\ editedImage = Null

\* C14: error and editedImage are never both present
C14_NeverErrorAndResult ==
    ~(error # Null /\ editedImage # Null)

\* C15: a stored result is the edit of the file that is selected now
C15_ResultOfSelectedImage ==
    editedImage # Null => editedFrom = originalImageFile

\* C16: an outstanding invocation works on the file and the prompt of the moment
\* handleSubmit was called: choosing another file while loading changes neither
\* the invocation nor isLoading, fileToBase64 encodes the file closed over, and
\* isLoading stays true while the invocation is outstanding
C16_RequestNotAltered ==
    /\ [](tasks # <<>> => isLoading)
    /\ [][(last'.op = "handleImageChange" /\ isLoading)
            => (tasks' = tasks /\ isLoading')]_vars
    /\ [][(last'.op = "handleSubmit" /\ ~isLoading /\ isLoading')
            => /\ Len(tasks') = Len(tasks) + 1
               /\ tasks'[Len(tasks')].originalImageFile = originalImageFile[1]
               /\ tasks'[Len(tasks')].prompt = prompt]_vars
    /\ [][last'.op = "fileRead"
            => /\ Len(tasks') = Len(tasks)
               /\ \A i \in 1..Len(tasks) :
                    /\ tasks'[i].originalImageFile = tasks[i].originalImageFile
                    /\ tasks'[i].prompt = tasks[i].prompt
                    /\ tasks'[i].base64 = Base64Encode(tasks[i].originalImageFile.bytes)
                    /\ tasks'[i].mimeType = tasks[i].originalImageFile.type]_vars

C16_Witness ==
    /\ last.op = "fileRead"
    /\ isLoading
    /\ Len(tasks) = 1
    /\ tasks[1].pc = "editImageWithPrompt"
    /\ originalImageFile # Some(tasks[1].originalImageFile)
    /\ tasks[1].base64 = Base64Encode(tasks[1].originalImageFile.bytes)
    /\ tasks[1].base64 # Base64Encode(originalImageFile[1].bytes)

\* C17: editImageWithPrompt is called only by the step that resumes after
\* fileToBase64 resolved; a submit whose fileToBase64 rejected gets no call
C17_EncodeThenRequest ==
    /\ remoteCalls <= codecCalls
    /\ (remoteCalls # last.pre.remoteCalls
            => (last.op = "fileRead" /\ remoteCalls = last.pre.remoteCalls + 1))
    /\ (last.op = "readError"
            => (remoteCalls = last.pre.remoteCalls /\ remoteCalls < codecCalls))

C17_Witness ==
    /\ last.op = "readError"
    /\ codecCalls = 2
    /\ remoteCalls = 1
    /\ tasks = <<>>

\* C18: fileToBase64 and editImageWithPrompt are each called at most once per
\* accepted submit, and a step that ends in failure calls neither again
C18_NoRetry ==
    /\ codecCalls <= submits
    /\ remoteCalls <= submits
    /\ (IsFailureStep
            => (/\ remoteCalls = last.pre.remoteCalls
                /\ codecCalls = last.pre.codecCalls
                /\ tasks = <<>>))

C18_Witness ==
    /\ last.op = "transportError"
    /\ submits = 2
    /\ codecCalls = 2
    /\ remoteCalls = 2
    /\ tasks = <<>>
    /\ ~isLoading

\* C19: a submit with no image selected and a blank instruction sets the error to
\* "Please upload an image first.", not to the empty-instruction message
C19_ImageCheckedFirst ==
    [][(last'.op = "handleSubmit" /\ originalImageFile = Null /\ OnlyWhiteSpace(prompt))
        => (error' = Some(UploadImageFirst) /\ error' # Some(EnterInstruction))]_vars

C19_Witness ==
    /\ last.op = "handleSubmit"
    /\ originalImageFile = Null
    /\ prompt = <<" ">>
    /\ error = Some(UploadImageFirst)

\* C20: the error stored by the catch block is the failure's message when it has
\* a non-empty one, "An unknown error occurred." otherwise, and never empty
C20_ErrorMessageOrFallback ==
    /\ (last.op \in {"readError", "transportError"}
            => error = (IF last.arg.message = Null \/ last.arg.message = Some("")
                        THEN Some(UnknownError)
                        ELSE last.arg.message))
    /\ ((last.op = "responded" /\ HasNoImagePart(last.arg))
            => error = NoImageInResponse.message)
    /\ error # Some("")

C20_Witness ==
    /\ last.op = "transportError"
    /\ last.arg.message = Some("Failed to fetch")
    /\ error = Some("Failed to fetch")
    /\ ~isLoading

====
